---------------------------- MODULE Spec2Model ----------------------------
(***************************************************************************)
(* WeatherOpsPlanner: the scheduling engine.                               *)
(*                                                                         *)
(*   src/src/schedule.py          schedule_activities (free-running CPM,   *)
(*                                hours as numbers, weather delay)         *)
(*   src/src/schedule_weather.py  Scheduler (window alignment search,      *)
(*                                forward / latest computation and the     *)
(*                                anchor-pinned schedule_around_target)    *)
(*                                                                         *)
(* Time is counted in ticks.  In schedule.py a tick is one hour unit of    *)
(* the float arithmetic (taken as exact).  In schedule_weather.py a tick   *)
(* is the resolution of datetime/timedelta and MinuteTicks ticks make the  *)
(* minute that .replace(second=0, microsecond=0) truncates to.             *)
(***************************************************************************)
EXTENDS Integers, Sequences, FiniteSets, TLC

VARIABLES
    pc,                 \* position of the run being modelled
    outcome,            \* "" while running, then "ok" or the exception raised
    maxdepth,           \* deepest recursion reached by the run so far
    cpm,                \* schedule.py: id -> Activity
    weather_data,       \* schedule.py: sequence of samples, index 0 first
    analysis_interval,  \* schedule.py: time step of the weather search
    sched,              \* schedule_weather.py: id -> Activity
    windows,            \* schedule_weather.py: daylight, HW and LW windows
    target_name,        \* schedule_around_target argument
    target_start_time,  \* schedule_around_target argument
    probe,              \* arguments and result of one alignment search
    rerun               \* schedule_weather.py: the Scheduler has been run before

vars == <<pc, outcome, maxdepth, cpm, weather_data, analysis_interval,
          sched, windows, target_name, target_start_time, probe, rerun>>

---------------------------------------------------------------------------
(* Bounds of the model *)

MaxDur == 2          \* durations range over 1..MaxDur ticks
StackLimit == 5      \* frames the interpreter allows before RecursionError
MaxTime == 4         \* window bounds and search bounds range over 0..MaxTime

(* Python's None for a time or a number that is not set *)
None == -1000

Ids == {"A", "B", "C"}
\* the order of the activity list handed to the engine
ActList == <<"A", "B", "C">>
\* an id that no activity of the list carries
Ghost == "Z"

Max(a, b) == IF a >= b THEN a ELSE b
Min(a, b) == IF a <= b THEN a ELSE b
SetMax(S) == CHOOSE x \in S : \A y \in S : y <= x
SetMin(S) == CHOOSE x \in S : \A y \in S : x <= y

Range(s) == {s[i] : i \in 1..Len(s)}

\* predecessor lists: no id twice, at most two entries
PredLists(a) ==
    LET O == Ids \ {a}
    IN  {<<>>} \cup {<<x>> : x \in O}
               \cup {<<x, y>> : <<x, y>> \in {p \in O \X O : p[1] # p[2]}}

\* a -> b when a is listed as a predecessor of b (and is in the graph)
RECURSIVE ReachFrom(_, _, _)
ReachFrom(P, S, n) ==
    IF n = 0 THEN S
    ELSE ReachFrom(P, S \cup {b \in Ids : \E a \in S : a \in Range(P[b])}, n - 1)

\* the precedence relation P (id -> predecessor list) contains a cycle
IsCyclic(P) ==
    \E a \in Ids :
        a \in ReachFrom(P, {b \in Ids : a \in Range(P[b])}, Cardinality(Ids))

---------------------------------------------------------------------------
(* schedule.py *)

\* round(n / d) as Python computes it: ties go to the even neighbour
RoundHalfEven(n, d) ==
    LET q == n \div d
        r == n % d
    IN  IF 2 * r < d THEN q
        ELSE IF 2 * r > d THEN q + 1
        ELSE IF q % 2 = 0 THEN q ELSE q + 1

CpmActivity(preds, dur, maxcur, minlvl) ==
    [predecessors |-> preds, duration |-> dur,
     max_tidal_current |-> maxcur, min_tidal_level |-> minlvl,
     start |-> None, end |-> None,
     latest_start |-> None, latest_end |-> None,
     slack |-> None, is_critical |-> FALSE]

\* weather_data.get(time_index, {}).get(key, 0)
Sample(wd, time_index, key) ==
    IF time_index >= 0 /\ time_index < Len(wd) THEN wd[time_index + 1][key] ELSE 0

is_weather_ok(activity, time_index, wd) ==
    LET current_ok == \/ activity.max_tidal_current = None
                      \/ Sample(wd, time_index, "tidal_current") <= activity.max_tidal_current
        level_ok == \/ activity.min_tidal_level = None
                    \/ Sample(wd, time_index, "tidal_level") >= activity.min_tidal_level
    IN  current_ok /\ level_ok

\* the "while not is_weather_ok(...): start_time += analysis_interval" loop.
\* Past the last sample every index reads the defaults, so a search that has
\* found nothing two steps past the data never ends.
WeatherDelay(activity, start_time, wd, interval) ==
    LET Tries == 0..(Len(wd) + 2)
        Ok == {k \in Tries :
                 is_weather_ok(activity,
                               RoundHalfEven(start_time + k * interval, interval), wd)}
    IN  IF wd = <<>> THEN [hang |-> FALSE, t |-> start_time]
        ELSE IF Ok = {} THEN [hang |-> TRUE, t |-> start_time]
        ELSE [hang |-> FALSE, t |-> start_time + SetMin(Ok) * interval]

\* compute_times(activity), with the loop over its predecessors.
\* st = [acts, err, depth]; i is the index of the predecessor the loop is at,
\* 0 on entry to the function.
RECURSIVE compute_times(_, _, _, _, _, _, _)
compute_times(st, a, i, max_end, d, wd, interval) ==
    LET act == st.acts[a]
        preds == act.predecessors
    IN
    IF st.err # "" THEN st
    ELSE IF i = 0 THEN
        IF d > StackLimit THEN [st EXCEPT !.err = "RecursionError"]
        ELSE IF act.start # None THEN st
        ELSE compute_times([st EXCEPT !.depth = Max(@, d)], a, 1, 0, d, wd, interval)
    ELSE IF i <= Len(preds) THEN
        IF preds[i] \in DOMAIN st.acts
        THEN LET s1 == compute_times(st, preds[i], 0, 0, d + 1, wd, interval)
             IN  IF s1.err # "" THEN s1
                 ELSE compute_times(s1, a, i + 1,
                                    Max(max_end, s1.acts[preds[i]].end), d, wd, interval)
        ELSE compute_times(st, a, i + 1, max_end, d, wd, interval)
    ELSE
        LET start_time == IF preds = <<>> THEN 0 ELSE max_end
            w == WeatherDelay(act, start_time, wd, interval)
        IN  IF w.hang THEN [st EXCEPT !.err = "Hang"]
            ELSE [st EXCEPT !.acts[a].start = w.t,
                            !.acts[a].end = w.t + act.duration]

\* for activity in activities: compute_times(activity)
RECURSIVE forward_pass(_, _, _, _)
forward_pass(st, k, wd, interval) ==
    IF k > Len(ActList) \/ st.err # "" THEN st
    ELSE forward_pass(compute_times(st, ActList[k], 0, 0, 1, wd, interval),
                      k + 1, wd, interval)

project_end(acts) == SetMax({acts[a].end : a \in DOMAIN acts})

\* init_latest with the duration left out of latest_start
init_latest_without_duration(acts) ==
    LET pe == project_end(acts)
    IN  [a \in DOMAIN acts |->
            [acts[a] EXCEPT !.latest_end = pe, !.latest_start = pe]]

\* for act in activities: latest_end = project_end; latest_start = ...
init_latest(acts) ==
    LET pe == project_end(acts)
    IN  [a \in DOMAIN acts |->
            [acts[a] EXCEPT !.latest_end = pe, !.latest_start = pe - acts[a].duration]]

\* tighten with the predecessor's duration taken off its latest_end as well
tighten_subtracts_twice(acts, act, pred_id) ==
    IF pred_id \in DOMAIN acts
    THEN LET le == Min(acts[pred_id].latest_end,
                       acts[act].latest_start - acts[pred_id].duration)
         IN  [acts EXCEPT ![pred_id].latest_end = le,
                          ![pred_id].latest_start = le - acts[pred_id].duration]
    ELSE acts

\* the tightening of one predecessor by act
tighten(acts, act, pred_id) ==
    IF pred_id \in DOMAIN acts
    THEN LET le == Min(acts[pred_id].latest_end, acts[act].latest_start)
         IN  [acts EXCEPT ![pred_id].latest_end = le,
                          ![pred_id].latest_start = le - acts[pred_id].duration]
    ELSE acts

\* for act in reversed(activities): for pred_id in act.predecessors: ...
RECURSIVE backward_pass(_, _, _)
backward_pass(acts, k, i) ==
    IF k = 0 THEN acts
    ELSE IF i > Len(acts[ActList[k]].predecessors) THEN backward_pass(acts, k - 1, 1)
    ELSE backward_pass(tighten(acts, ActList[k], acts[ActList[k]].predecessors[i]),
                       k, i + 1)

\* for act in activities: slack, is_critical
slack_pass(acts) ==
    [a \in DOMAIN acts |->
        LET s == acts[a].latest_start - acts[a].start
        IN  [acts[a] EXCEPT !.slack = s, !.is_critical = (s = 0)]]

---------------------------------------------------------------------------
(* schedule_weather.py: the window alignment search *)

\* ticks in the minute that replace(second=0, microsecond=0) truncates to
MinuteTicks == 2
\* datetime(2025, 10, 29, 8, 0), the default project start
ProjectStart == 8

\* t.replace(second=0, microsecond=0)
TruncMinute(t) == t - (t % MinuteTicks)

\* timedelta / 2: rounded to the resolution, ties to even
HalfTd(n) == RoundHalfEven(n, 2)

SchedActivity(preds, dur, tide, daylight, ref) ==
    [predecessors |-> preds, duration |-> dur,
     constraints |-> [tide_window_required |-> tide, daylight_required |-> daylight],
     start |-> None, end |-> None, earliest_start |-> None,
     latest_end |-> None, float |-> None, duration_reference |-> ref]

WindowCenter(w) == w[1] + HalfTd(w[2] - w[1])

\* sorted(windows, key=center): stable insertion sort
RECURSIVE InsertByCenter(_, _)
InsertByCenter(w, s) ==
    IF s = <<>> THEN <<w>>
    ELSE IF WindowCenter(s[Len(s)]) <= WindowCenter(w) THEN Append(s, w)
    ELSE Append(InsertByCenter(w, SubSeq(s, 1, Len(s) - 1)), s[Len(s)])

RECURSIVE SortByCenter(_)
SortByCenter(ws) ==
    IF ws = <<>> THEN <<>>
    ELSE InsertByCenter(ws[Len(ws)], SortByCenter(SubSeq(ws, 1, Len(ws) - 1)))

\* sorted(windows, key=end, reverse=True): stable
RECURSIVE InsertByEndDesc(_, _)
InsertByEndDesc(w, s) ==
    IF s = <<>> THEN <<w>>
    ELSE IF s[Len(s)][2] >= w[2] THEN Append(s, w)
    ELSE Append(InsertByEndDesc(w, SubSeq(s, 1, Len(s) - 1)), s[Len(s)])

RECURSIVE SortByEndDesc(_)
SortByEndDesc(ws) ==
    IF ws = <<>> THEN <<>>
    ELSE InsertByEndDesc(ws[Len(ws)], SortByEndDesc(SubSeq(ws, 1, Len(ws) - 1)))

\* the window list a tide requirement selects
TideWindows(tide_req) ==
    IF tide_req = "slackhw" THEN windows.HW
    ELSE IF tide_req = "slack" THEN windows.HW \o windows.LW
    ELSE <<>>

overlaps_daylight(start, duration_td) ==
    LET end == start + duration_td
    IN  \E k \in 1..Len(windows.daylight) :
            Min(windows.daylight[k][2], end) - Max(windows.daylight[k][1], start) > 0

\* aligned_tide_scan that asks for a start strictly after earliest_start
RECURSIVE aligned_tide_scan_strict(_, _, _, _, _)
aligned_tide_scan_strict(ws, k, duration_td, daylight_req, earliest_start) ==
    IF k > Len(ws) THEN None
    ELSE LET proposed_start == WindowCenter(ws[k]) - HalfTd(duration_td)
         IN  IF /\ proposed_start > earliest_start
                /\ (~daylight_req \/ overlaps_daylight(proposed_start, duration_td))
             THEN proposed_start
             ELSE aligned_tide_scan_strict(ws, k + 1, duration_td, daylight_req,
                                           earliest_start)

\* the loop over the sorted tide windows of find_aligned_start;
\* None when no window is accepted
RECURSIVE aligned_tide_scan(_, _, _, _, _)
aligned_tide_scan(ws, k, duration_td, daylight_req, earliest_start) ==
    IF k > Len(ws) THEN None
    ELSE LET proposed_start == WindowCenter(ws[k]) - HalfTd(duration_td)
         IN  IF /\ proposed_start >= earliest_start
                /\ (~daylight_req \/ overlaps_daylight(proposed_start, duration_td))
             THEN proposed_start
             ELSE aligned_tide_scan(ws, k + 1, duration_td, daylight_req, earliest_start)

\* aligned_daylight_scan that does not ask the window to hold the duration
RECURSIVE aligned_daylight_scan_any_length(_, _, _)
aligned_daylight_scan_any_length(k, duration_td, earliest_start) ==
    IF k > Len(windows.daylight) THEN None
    ELSE LET w == windows.daylight[k]
         IN  IF w[1] >= earliest_start
             THEN w[1]
             ELSE aligned_daylight_scan_any_length(k + 1, duration_td, earliest_start)

\* the loop over the daylight windows of find_aligned_start
RECURSIVE aligned_daylight_scan(_, _, _)
aligned_daylight_scan(k, duration_td, earliest_start) ==
    IF k > Len(windows.daylight) THEN None
    ELSE LET w == windows.daylight[k]
         IN  IF w[1] >= earliest_start /\ (w[2] - w[1]) >= duration_td
             THEN w[1]
             ELSE aligned_daylight_scan(k + 1, duration_td, earliest_start)

find_aligned_start(activity, earliest_start) ==
    LET duration_td == activity.duration
        tide_req == activity.constraints.tide_window_required
        daylight_req == activity.constraints.daylight_required
        byTide == IF tide_req # ""
                  THEN aligned_tide_scan(SortByCenter(TideWindows(tide_req)), 1,
                                         duration_td, daylight_req, earliest_start)
                  ELSE None
        byDay == IF daylight_req
                 THEN aligned_daylight_scan(1, duration_td, earliest_start)
                 ELSE None
    IN  IF byTide # None THEN byTide
        ELSE IF byDay # None THEN byDay
        ELSE earliest_start

\* the loop over the windows (latest end first) of find_latest_aligned_start;
\* tide is TRUE in the tide loop, whose acceptance also asks for daylight.
\* The test window_start >= datetime.min holds of every datetime.
RECURSIVE latest_scan(_, _, _, _, _, _)
latest_scan(ws, k, duration_td, latest_end, tide, daylight_req) ==
    IF k > Len(ws) THEN None
    ELSE LET window_end == Min(ws[k][2], latest_end)
             window_start == window_end - duration_td
         IN  IF /\ window_start >= ws[k][1]
                /\ window_start <= latest_end - duration_td
                /\ (~tide \/ ~daylight_req \/ overlaps_daylight(window_start, duration_td))
             THEN window_start
             ELSE latest_scan(ws, k + 1, duration_td, latest_end, tide, daylight_req)

find_latest_aligned_start(activity, latest_end) ==
    LET duration_td == activity.duration
        latest_start == latest_end - duration_td
        tide_req == activity.constraints.tide_window_required
        daylight_req == activity.constraints.daylight_required
        byTide == IF tide_req # ""
                  THEN latest_scan(SortByEndDesc(TideWindows(tide_req)), 1,
                                   duration_td, latest_end, TRUE, daylight_req)
                  ELSE None
        byDay == IF daylight_req
                 THEN latest_scan(SortByEndDesc(windows.daylight), 1,
                                  duration_td, latest_end, FALSE, daylight_req)
                 ELSE None
    IN  IF byTide # None THEN byTide
        ELSE IF byDay # None THEN byDay
        ELSE latest_start

---------------------------------------------------------------------------
(* schedule_weather.py: Scheduler *)

\* Scheduler.__init__: act.successors, in the order of the activity list
successors(acts, a) ==
    SelectSeq(ActList, LAMBDA b : a \in Range(acts[b].predecessors))

\* max(self.activity_map[pred_id].end for pred_id in activity.predecessors)
MaxPredEnd(acts, a) ==
    SetMax({acts[p].end : p \in Range(acts[a].predecessors)})

\* lines 112-130 of compute_start_end_forward for an activity whose
\* earliest_start is known and whose referenced activity, if any, has been
\* computed: start, end, derived duration, float, truncation
forward_assign(st, a, earliest_start) ==
    LET act == st.acts[a]
        ref == act.duration_reference
        start == find_aligned_start(act, earliest_start)
    IN  IF ref # ""
        THEN IF ref \notin DOMAIN st.acts
             THEN [st EXCEPT !.acts[a].start = start, !.err = "AttributeError"]
             ELSE LET end == st.acts[ref].start
                  IN  IF end > start
                      THEN [st EXCEPT !.acts[a].start = TruncMinute(start),
                                      !.acts[a].end = TruncMinute(end),
                                      !.acts[a].duration = end - start,
                                      !.acts[a].float = 0]
                      ELSE [st EXCEPT !.acts[a].start = start,
                                      !.acts[a].end = end,
                                      !.err = "ValueError"]
        ELSE [st EXCEPT !.acts[a].start = TruncMinute(start),
                        !.acts[a].end = TruncMinute(start + act.duration)]

\* compute_start_end_forward(activity).  st = [acts, err, depth]; i is the
\* index of the predecessor the first loop is at, 0 on entry.
RECURSIVE compute_start_end_forward(_, _, _, _)
compute_start_end_forward(st, a, i, d) ==
    LET act == st.acts[a]
        preds == act.predecessors
    IN
    IF st.err # "" THEN st
    ELSE IF i = 0 THEN
        IF d > StackLimit THEN [st EXCEPT !.err = "RecursionError"]
        ELSE compute_start_end_forward([st EXCEPT !.depth = Max(@, d)], a, 1, d)
    ELSE IF i <= Len(preds) THEN
        IF preds[i] \notin DOMAIN st.acts THEN [st EXCEPT !.err = "KeyError"]
        ELSE IF st.acts[preds[i]].end = None
        THEN compute_start_end_forward(
                 compute_start_end_forward(st, preds[i], 0, d + 1), a, i + 1, d)
        ELSE compute_start_end_forward(st, a, i + 1, d)
    ELSE
        LET earliest_start ==
                IF preds # <<>> THEN MaxPredEnd(st.acts, a)
                ELSE IF act.start # None THEN act.start ELSE ProjectStart
            s1 == [st EXCEPT !.acts[a].earliest_start = earliest_start]
            ref == act.duration_reference
            s2 == IF ref # "" /\ ref \in DOMAIN s1.acts /\ s1.acts[ref].start = None
                  THEN compute_start_end_forward(s1, ref, 0, d + 1)
                  ELSE s1
        IN  IF s2.err # "" THEN s2 ELSE forward_assign(s2, a, earliest_start)

\* the latest_end compute_start_end_latest picks when none is given
default_latest_end(acts, a) ==
    LET successor_starts == {acts[s].start : s \in {x \in Range(successors(acts, a)) :
                                                       acts[x].start # None}}
        scheduled_ends == {acts[x].end : x \in {y \in DOMAIN acts : acts[y].end # None}}
    IN  IF successor_starts # {} THEN SetMin(successor_starts)
        ELSE IF scheduled_ends # {} THEN SetMax(scheduled_ends)
        ELSE None

\* compute_start_end_latest(activity, latest_end)
compute_start_end_latest(acts, a, latest_end) ==
    LET le == IF latest_end = None THEN default_latest_end(acts, a) ELSE latest_end
        start == find_latest_aligned_start(acts[a], le)
    IN  [acts EXCEPT ![a].latest_end = le,
                     ![a].start = TruncMinute(start),
                     ![a].end = TruncMinute(start + acts[a].duration)]

\* reset_fields with float left as the previous run set it
reset_fields_keeps_float(acts) ==
    [a \in DOMAIN acts |->
        [acts[a] EXCEPT !.start = None, !.end = None, !.earliest_start = None,
                        !.latest_end = None]]

\* lines 154-159: every computed field is cleared
reset_fields(acts) ==
    [a \in DOMAIN acts |->
        [acts[a] EXCEPT !.start = None, !.end = None, !.earliest_start = None,
                        !.latest_end = None, !.float = None]]

\* lines 165-166: the target is pinned
anchor_set(acts, t, target_time) ==
    [acts EXCEPT ![t].start = TruncMinute(target_time),
                 ![t].end = TruncMinute(TruncMinute(target_time) + acts[t].duration)]

\* get_predecessor_chain raises KeyError on a predecessor id that is not in
\* the graph; its result is not used
RECURSIVE chain_has_ghost(_, _, _)
chain_has_ghost(acts, S, n) ==
    IF \E a \in S : \E p \in Range(acts[a].predecessors) : p \notin DOMAIN acts THEN TRUE
    ELSE IF n = 0 THEN FALSE
    ELSE chain_has_ghost(acts, S \cup {p \in DOMAIN acts :
                                         \E a \in S : p \in Range(acts[a].predecessors)},
                         n - 1)

\* schedule_chain_backward(act, latest_end); i is the index of the
\* predecessor its loop is at, 0 on entry
RECURSIVE schedule_chain_backward(_, _, _, _, _)
schedule_chain_backward(st, a, latest_end, i, d) ==
    IF st.err # "" THEN st
    ELSE IF i = 0 THEN
        IF d > StackLimit THEN [st EXCEPT !.err = "RecursionError"]
        ELSE schedule_chain_backward(
                 [st EXCEPT !.acts = compute_start_end_latest(st.acts, a, latest_end),
                            !.depth = Max(@, d)], a, latest_end, 1, d)
    ELSE IF i > Len(st.acts[a].predecessors) THEN st
    ELSE LET p == st.acts[a].predecessors[i]
         IN  IF p \notin DOMAIN st.acts THEN [st EXCEPT !.err = "KeyError"]
             ELSE schedule_chain_backward(
                      schedule_chain_backward(st, p, st.acts[a].start, 0, d + 1),
                      a, latest_end, i + 1, d)

\* lines 174-176: for pred_id in target_act.predecessors: ...
RECURSIVE backward_chain(_, _, _)
backward_chain(st, t, i) ==
    IF st.err # "" \/ i > Len(st.acts[t].predecessors) THEN st
    ELSE LET p == st.acts[t].predecessors[i]
         IN  IF p \notin DOMAIN st.acts THEN [st EXCEPT !.err = "KeyError"]
             ELSE backward_chain(
                      schedule_chain_backward(st, p, st.acts[t].start, 0, 1), t, i + 1)

\* schedule_chain_forward(act).  phase 0: entry; phase 1: the loop over the
\* predecessors (index i); phase 2: the loop over the successors (index i)
RECURSIVE schedule_chain_forward(_, _, _, _, _)
schedule_chain_forward(st, a, phase, i, d) ==
    LET preds == st.acts[a].predecessors
        succs == successors(st.acts, a)
    IN
    IF st.err # "" THEN st
    ELSE IF phase = 0 THEN
        IF d > StackLimit THEN [st EXCEPT !.err = "RecursionError"]
        ELSE schedule_chain_forward([st EXCEPT !.depth = Max(@, d)], a, 1, 1, d)
    ELSE IF phase = 1 THEN
        IF i <= Len(preds) THEN
            IF preds[i] \notin DOMAIN st.acts THEN [st EXCEPT !.err = "KeyError"]
            ELSE IF st.acts[preds[i]].end = None
            THEN schedule_chain_forward(
                     compute_start_end_forward(st, preds[i], 0, d + 1), a, 1, i + 1, d)
            ELSE schedule_chain_forward(st, a, 1, i + 1, d)
        ELSE schedule_chain_forward(
                 compute_start_end_forward(st, a, 0, d + 1), a, 2, 1, d)
    ELSE IF i > Len(succs) THEN st
    ELSE schedule_chain_forward(
             schedule_chain_forward(st, succs[i], 0, 0, d + 1), a, 2, i + 1, d)

\* lines 192-194: for succ_id in target_act.successors: ...
RECURSIVE forward_chain(_, _, _)
forward_chain(st, t, i) ==
    IF st.err # "" \/ i > Len(successors(st.acts, t)) THEN st
    ELSE forward_chain(
             schedule_chain_forward(st, successors(st.acts, t)[i], 0, 0, 1), t, i + 1)

\* lines 196-198: every activity still without start or end is forward-computed
RECURSIVE residual_pass(_, _)
residual_pass(st, k) ==
    IF st.err # "" \/ k > Len(ActList) THEN st
    ELSE LET act == st.acts[ActList[k]]
         IN  residual_pass(IF act.start = None \/ act.end = None
                           THEN compute_start_end_forward(st, ActList[k], 0, 1)
                           ELSE st, k + 1)

\* lines 199-201: every activity without latest_end gets its latest times
RECURSIVE latest_pass(_, _)
latest_pass(acts, k) ==
    IF k > Len(ActList) THEN acts
    ELSE latest_pass(IF acts[ActList[k]].latest_end = None
                     THEN compute_start_end_latest(acts, ActList[k], None)
                     ELSE acts, k + 1)

\* lines 202-207: float
float_pass(acts) ==
    [a \in DOMAIN acts |->
        IF /\ acts[a].earliest_start # None
           /\ acts[a].latest_end # None
           /\ acts[a].duration_reference = ""
        THEN [acts[a] EXCEPT !.float = (acts[a].latest_end - acts[a].earliest_start)
                                       - acts[a].duration]
        ELSE IF acts[a].duration_reference # ""
        THEN [acts[a] EXCEPT !.float = 0]
        ELSE acts[a]]

---------------------------------------------------------------------------
(* The inputs the runs are started on *)

\* every assignment of predecessor lists to the activities (cycles included)
PredAssignments ==
    {P \in [Ids -> UNION {PredLists(a) : a \in Ids}] : \A a \in Ids : P[a] \in PredLists(a)}

Durations == [Ids -> 1..MaxDur]

\* weather samples: calm, a current of 2 (over a limit of 1), a level of 0
\* (under a limit of 1)
Samples == {[tidal_current |-> 0, tidal_level |-> 1],
            [tidal_current |-> 2, tidal_level |-> 1],
            [tidal_current |-> 0, tidal_level |-> 0]}

WeatherSeries == {<<x, y>> : <<x, y>> \in Samples \X Samples}

\* the limits of the first activity of the list: [max current, min level]
WeatherLimits == {<<1, None>>, <<None, 1>>}

NoWindows == [daylight |-> <<>>, HW |-> <<>>, LW |-> <<>>]
NoProbe == [op |-> ""]
NoActs == [a \in Ids |-> [predecessors |-> <<>>]]

---------------------------------------------------------------------------
(* schedule_activities(activities, weather_data, analysis_interval) *)

InitCpm ==
    /\ pc = "cpm_start"
    /\ outcome = ""
    /\ maxdepth = 0
    /\ \E P \in PredAssignments, D \in Durations :
         \/ /\ weather_data = <<>>
            /\ analysis_interval = 1
            /\ cpm = [a \in Ids |-> CpmActivity(P[a], D[a], None, None)]
         \/ /\ weather_data \in WeatherSeries
            /\ analysis_interval \in {1, 2}
            /\ \E L \in WeatherLimits :
                 cpm = [a \in Ids |->
                          IF a = ActList[1] THEN CpmActivity(P[a], D[a], L[1], L[2])
                          ELSE CpmActivity(P[a], D[a], None, None)]
    /\ sched = NoActs
    /\ windows = NoWindows
    /\ target_name = ""
    /\ target_start_time = None
    /\ probe = NoProbe
    /\ rerun = FALSE

OtherThanCpm == <<sched, windows, target_name, target_start_time, probe,
                  weather_data, analysis_interval, rerun>>

\* lines 76-77: the forward pass over the whole list
CpmForward ==
    /\ pc = "cpm_start"
    /\ LET st == forward_pass([acts |-> cpm, err |-> "", depth |-> 0], 1,
                              weather_data, analysis_interval)
       IN  /\ cpm' = st.acts
           /\ maxdepth' = st.depth
           /\ IF st.err = ""
              THEN pc' = "cpm_forward_done" /\ outcome' = outcome
              ELSE pc' = "raised" /\ outcome' = st.err
    /\ UNCHANGED OtherThanCpm

\* lines 79-90: the backward pass
CpmBackward ==
    /\ pc = "cpm_forward_done"
    /\ cpm' = backward_pass(init_latest(cpm), Len(ActList), 1)
    /\ pc' = "cpm_backward_done"
    /\ UNCHANGED <<outcome, maxdepth>>
    /\ UNCHANGED OtherThanCpm

\* lines 92-97: slack and critical path
CpmSlack ==
    /\ pc = "cpm_backward_done"
    /\ cpm' = slack_pass(cpm)
    /\ pc' = "cpm_done"
    /\ outcome' = "ok"
    /\ UNCHANGED maxdepth
    /\ UNCHANGED OtherThanCpm

NextCpm == CpmForward \/ CpmBackward \/ CpmSlack

SpecCpm == InitCpm /\ [][NextCpm]_vars

---------------------------------------------------------------------------
(* Scheduler.schedule_around_target(target_name, target_start_time) *)

\* an activity with an 'until ID' duration and the activity it refers to, or
\* <<"", "">> when every duration is a number
DerivedChoices == {<<"", "">>} \cup {p \in Ids \X Ids : p[1] # p[2]}

\* anchor times around the default project start, on and off the minute
AnchorTimes == {ProjectStart - MinuteTicks, ProjectStart - MinuteTicks + 1}

\* the runs start on a freshly built graph; DS is the set of durations
AnchorInit(DS) ==
    /\ pc = "anchor_start"
    /\ outcome = ""
    /\ maxdepth = 0
    /\ \E P \in PredAssignments, D \in [Ids -> DS], R \in DerivedChoices :
         sched = [a \in Ids |->
                    IF a = R[1] THEN SchedActivity(P[a], 0, "", FALSE, R[2])
                    ELSE SchedActivity(P[a], D[a], "", FALSE, "")]
    /\ windows = NoWindows
    /\ target_name \in Ids \cup {Ghost}
    /\ target_start_time \in AnchorTimes
    /\ cpm = NoActs
    /\ weather_data = <<>>
    /\ analysis_interval = 1
    /\ probe = NoProbe
    /\ rerun = FALSE

\* durations of any length, the half minute included
InitAnchor == AnchorInit(1..MaxDur)

\* durations of whole minutes only
InitAnchorMinutes == AnchorInit({k * MinuteTicks : k \in 1..MaxDur})

OtherThanSched == <<cpm, weather_data, analysis_interval, windows,
                    target_name, target_start_time, probe, rerun>>

\* the end of a phase that ran the recursive propagation st
PhaseEnd(st, next_pc) ==
    /\ sched' = st.acts
    /\ maxdepth' = Max(maxdepth, st.depth)
    /\ IF st.err = ""
       THEN pc' = next_pc /\ outcome' = outcome
       ELSE pc' = "raised" /\ outcome' = st.err

\* lines 154-159
AnchorReset ==
    /\ pc = "anchor_start"
    /\ sched' = reset_fields(sched)
    /\ pc' = "RESET"
    /\ UNCHANGED <<outcome, maxdepth>>
    /\ UNCHANGED OtherThanSched

\* lines 161-166
AnchorSet ==
    /\ pc = "RESET"
    /\ IF target_name \in DOMAIN sched
       THEN /\ sched' = anchor_set(sched, target_name, target_start_time)
            /\ pc' = "ANCHOR_SET"
            /\ outcome' = outcome
       ELSE /\ sched' = sched
            /\ pc' = "raised"
            /\ outcome' = "ValueError"
    /\ UNCHANGED maxdepth
    /\ UNCHANGED OtherThanSched

\* lines 168-176
BackwardChain ==
    /\ pc = "ANCHOR_SET"
    /\ PhaseEnd(IF chain_has_ghost(sched, {target_name}, Cardinality(Ids))
                THEN [acts |-> sched, err |-> "KeyError", depth |-> 0]
                ELSE backward_chain([acts |-> sched, err |-> "", depth |-> 0],
                                    target_name, 1),
                "BACKWARD_CHAIN")
    /\ UNCHANGED OtherThanSched

\* lines 178-194
ForwardChain ==
    /\ pc = "BACKWARD_CHAIN"
    /\ PhaseEnd(forward_chain([acts |-> sched, err |-> "", depth |-> 0], target_name, 1),
                "FORWARD_CHAIN")
    /\ UNCHANGED OtherThanSched

\* lines 196-198
Residual ==
    /\ pc = "FORWARD_CHAIN"
    /\ PhaseEnd(residual_pass([acts |-> sched, err |-> "", depth |-> 0], 1), "RESIDUAL")
    /\ UNCHANGED OtherThanSched

\* lines 199-201
LatestPass ==
    /\ pc = "RESIDUAL"
    /\ sched' = latest_pass(sched, 1)
    /\ pc' = "LATEST"
    /\ UNCHANGED <<outcome, maxdepth>>
    /\ UNCHANGED OtherThanSched

\* lines 202-209
FloatPass ==
    /\ pc = "LATEST"
    /\ sched' = float_pass(sched)
    /\ pc' = "DONE"
    /\ outcome' = "ok"
    /\ UNCHANGED maxdepth
    /\ UNCHANGED OtherThanSched

NextAnchor ==
    \/ AnchorReset
    \/ AnchorSet
    \/ BackwardChain
    \/ ForwardChain
    \/ Residual
    \/ LatestPass
    \/ FloatPass

SpecAnchor == InitAnchor /\ [][NextAnchor]_vars

SpecAnchorMinutes == InitAnchorMinutes /\ [][NextAnchor]_vars

---------------------------------------------------------------------------
(* One call of the window alignment search *)

Windows == {w \in (0..MaxTime) \X (0..MaxTime) : w[1] < w[2]}

\* what the window provider hands over for one category: disjoint windows in
\* chronological order
WindowLists(n) ==
    {<<>>} \cup {<<w>> : w \in Windows}
           \cup (IF n < 2 THEN {}
                 ELSE {<<v, w>> : <<v, w>> \in {p \in Windows \X Windows : p[1][2] <= p[2][1]}})

\* window lists for a constraint specification; a category the specification
\* does not read is left empty
WindowChoices(tide, daylight) ==
    {W \in [daylight : IF daylight THEN WindowLists(IF tide = "" THEN 2 ELSE 1) ELSE {<<>>},
            HW : IF tide # "" THEN WindowLists(1) ELSE {<<>>},
            LW : IF tide = "slack" THEN WindowLists(1) ELSE {<<>>}] : TRUE}

InitAlign ==
    /\ pc = "probe_start"
    /\ outcome = ""
    /\ maxdepth = 0
    /\ \E tide \in {"", "slack", "slackhw"}, daylight \in BOOLEAN,
          dur \in 1..MaxDur, bound \in 0..MaxTime :
         /\ windows \in WindowChoices(tide, daylight)
         /\ probe = [op |-> "", bound |-> bound, result |-> None,
                     activity |-> SchedActivity(<<>>, dur, tide, daylight, "")]
    /\ sched = NoActs
    /\ cpm = NoActs
    /\ weather_data = <<>>
    /\ analysis_interval = 1
    /\ target_name = ""
    /\ target_start_time = None
    /\ rerun = FALSE

OtherThanProbe == <<outcome, maxdepth, cpm, weather_data, analysis_interval,
                    sched, windows, target_name, target_start_time, rerun>>

\* find_aligned_start(activity, earliest_start)
FindAlignedStart ==
    /\ pc = "probe_start"
    /\ probe' = [probe EXCEPT !.op = "find_aligned_start",
                              !.result = find_aligned_start(probe.activity, probe.bound)]
    /\ pc' = "probe_done"
    /\ UNCHANGED OtherThanProbe

\* find_latest_aligned_start(activity, latest_end)
FindLatestAlignedStart ==
    /\ pc = "probe_start"
    /\ probe' = [probe EXCEPT !.op = "find_latest_aligned_start",
                              !.result = find_latest_aligned_start(probe.activity,
                                                                   probe.bound)]
    /\ pc' = "probe_done"
    /\ UNCHANGED OtherThanProbe

NextAlign == FindAlignedStart \/ FindLatestAlignedStart

SpecAlign == InitAlign /\ [][NextAlign]_vars

---------------------------------------------------------------------------
(* Properties: the anchor-pinned mode *)

SchedPreds == [a \in Ids |-> sched[a].predecessors]
CpmPreds == [a \in Ids |-> cpm[a].predecessors]

\* the predecessors of a that are in the graph
PresentPreds(P, a) == Range(P[a]) \cap Ids

\* C1: after schedule_around_target returns, the target still has the start
\* and end it was pinned to: start is the anchor time cut to the minute and
\* end is that start plus the target's duration (cut to the minute as the
\* pinning does); no later phase has moved the target
C1_AnchorStaysPinned ==
    pc = "DONE" =>
        /\ sched[target_name].start = TruncMinute(target_start_time)
        /\ sched[target_name].end =
               TruncMinute(TruncMinute(target_start_time) + sched[target_name].duration)

\* C2: after a successful run of either mode every activity starts no earlier
\* than the end of each of its predecessors that is in the graph
C2_StartAfterPredecessors ==
    /\ pc = "DONE" =>
          \A a \in Ids : \A q \in PresentPreds(SchedPreds, a) :
              sched[a].start >= sched[q].end
    /\ pc = "cpm_done" =>
          \A a \in Ids : \A q \in PresentPreds(CpmPreds, a) :
              cpm[a].start >= cpm[q].end

\* C3: after a successful run of either mode every activity has
\* end = start + duration
C3_EndIsStartPlusDuration ==
    /\ pc = "DONE" => \A a \in Ids : sched[a].end = sched[a].start + sched[a].duration
    /\ pc = "cpm_done" => \A a \in Ids : cpm[a].end = cpm[a].start + cpm[a].duration

\* P is one chain through all the activities: one activity without
\* predecessor, every other with exactly one, no activity preceding two
IsLinearChain(P) ==
    /\ Cardinality({a \in Ids : P[a] = <<>>}) = 1
    /\ \A a \in Ids : Len(P[a]) <= 1
    /\ \A a \in Ids : Cardinality({b \in Ids : a \in Range(P[b])}) <= 1
    /\ ~IsCyclic(P)

\* a is neither the first nor the last activity of the chain P
IsMiddle(P, a) == P[a] # <<>> /\ \E b \in Ids : a \in Range(P[b])

NoDerivedDuration == \A a \in Ids : sched[a].duration_reference = ""

\* C5: on a linear chain without constraints, anchoring a middle activity at
\* T gives a contiguous schedule: the target starts at T (cut to the minute),
\* every activity ends exactly when its successor starts, and every activity
\* spans exactly its duration (so A.start = T - dur(A), C.end = C.start + dur(C))
C5_ChainContiguous ==
    (/\ pc = "DONE"
     /\ IsLinearChain(SchedPreds)
     /\ NoDerivedDuration
     /\ IsMiddle(SchedPreds, target_name))
    => /\ sched[target_name].start = TruncMinute(target_start_time)
       /\ \A a \in Ids : sched[a].end = sched[a].start + sched[a].duration
       /\ \A a \in Ids : \A q \in PresentPreds(SchedPreds, a) :
              sched[q].end = sched[a].start

---------------------------------------------------------------------------
(* Properties: cycles *)

\* the exceptions the engine raises for a configuration error
ConfigurationErrors == {"ValueError"}

RunEnded == pc \in {"raised", "cpm_done", "DONE"}

\* C4: a run on a graph whose precedence relation has a cycle ends with a
\* configuration error, and its recursion never goes deeper than the number
\* of activities
C4_CycleIsConfigurationError ==
    (RunEnded /\ (IsCyclic(CpmPreds) \/ IsCyclic(SchedPreds)))
    => (outcome \in ConfigurationErrors /\ maxdepth <= Cardinality(Ids))

---------------------------------------------------------------------------
(* Properties: schedule_activities *)

HasLatestEnd(a) == \A b \in Ids : cpm[b].end <= cpm[a].end

\* the position of an activity in the list handed to the engine
Position(a) == CHOOSE k \in 1..Len(ActList) : ActList[k] = a

\* some activity is listed before one of its predecessors
ListNotTopological ==
    \E a \in Ids : \E q \in PresentPreds(CpmPreds, a) : Position(a) < Position(q)

\* some activity starts later than its predecessors (or time 0) allow: the
\* weather search has delayed it
WeatherDelayed ==
    \E a \in Ids :
        /\ \A q \in PresentPreds(CpmPreds, a) : cpm[a].start > cpm[q].end
        /\ cpm[a].start > 0

---------------------------------------------------------------------------
(* Properties: the window alignment search *)

AlignedStartReturned == pc = "probe_done" /\ probe.op = "find_aligned_start"

ProbeTide == probe.activity.constraints.tide_window_required
ProbeDaylight == probe.activity.constraints.daylight_required
ProbeDuration == probe.activity.duration

\* the windows of the category a tide requirement names
CategoryWindows(tide) ==
    IF tide = "slackhw" THEN Range(windows.HW)
    ELSE Range(windows.HW) \cup Range(windows.LW)

\* the span [t, t + dur) lies inside the window w
SpanInside(t, dur, w) == w[1] <= t /\ t + dur <= w[2]

\* the span [t, t + dur) satisfies every constraint the probed activity declares
SpanSatisfies(t) ==
    /\ ProbeTide # "" =>
           \E w \in CategoryWindows(ProbeTide) : SpanInside(t, ProbeDuration, w)
    /\ ProbeDaylight =>
           \E w \in Range(windows.daylight) : SpanInside(t, ProbeDuration, w)

\* C8: find_aligned_start returns the earliest time at or after not_before
\* whose span satisfies every declared constraint: the result is not before
\* not_before, its span satisfies the constraints, and no earlier time at or
\* after not_before does
C8_EarliestFeasibleStart ==
    AlignedStartReturned =>
        /\ probe.result >= probe.bound
        /\ SpanSatisfies(probe.result)
        /\ \A t \in probe.bound..(probe.result - 1) : ~SpanSatisfies(t)

\* window centre minus half the duration, at the resolution of the clock
CenteredStart(w) == w[1] + HalfTd(w[2] - w[1]) - HalfTd(ProbeDuration)

\* the windows of the required category whose centred start is not before
\* not_before
CenteredCandidates ==
    {w \in CategoryWindows(ProbeTide) : CenteredStart(w) >= probe.bound}

DaylightCandidates ==
    {w \in Range(windows.daylight) :
        w[1] >= probe.bound /\ w[2] - w[1] >= ProbeDuration}

\* C10: with a daylight requirement only, find_aligned_start returns the start
\* of the earliest daylight window that begins at or after not_before and is
\* at least as long as the duration, so the span lies inside that window
C10_DaylightWindowStart ==
    (AlignedStartReturned /\ ProbeTide = "" /\ ProbeDaylight /\ DaylightCandidates # {})
    => \E w \in DaylightCandidates :
          /\ probe.result = w[1]
          /\ SpanInside(probe.result, ProbeDuration, w)
          /\ \A v \in DaylightCandidates : w[1] <= v[1]

\* the first daylight window is passed over and the second one is taken
C10_Witness ==
    /\ AlignedStartReturned /\ ProbeTide = "" /\ ProbeDaylight
    /\ Len(windows.daylight) = 2
    /\ windows.daylight[1] \notin DaylightCandidates
    /\ windows.daylight[1][2] > probe.bound
    /\ probe.result = windows.daylight[2][1]
    /\ probe.result > probe.bound

---------------------------------------------------------------------------
(* Derived ('until ID') durations *)

\* the activities whose duration is derived from another activity's start
DerivedActs == {a \in Ids : sched[a].duration_reference # ""}

\* C11: after a successful schedule_around_target run, every activity X whose
\* duration is 'until Y' ends exactly at Y.start and has float 0
C11_DerivedEndsAtReference ==
    pc = "DONE" =>
        \A x \in DerivedActs :
            /\ sched[x].end = sched[sched[x].duration_reference].start
            /\ sched[x].float = 0

---------------------------------------------------------------------------
(* Weather limits in schedule_activities *)

\* the indices of the weather samples whose instant lies inside [start, end)
\* of the activity a
SamplesInside(a) ==
    {i \in 0..(Len(weather_data) - 1) :
        /\ cpm[a].start <= i * analysis_interval
        /\ i * analysis_interval < cpm[a].end}

\* C12: with weather data supplied, the start schedule_activities chooses is
\* such that every weather sample inside [start, start + duration) is within
\* each limit the activity declares, not only the sample at the start
C12_WholeSpanWeather ==
    (pc = "cpm_done" /\ weather_data # <<>>) =>
        \A a \in Ids : \A i \in SamplesInside(a) : is_weather_ok(cpm[a], i, weather_data)

\* C13: on an acyclic input with weather data schedule_activities terminates:
\* the weather-delay search never runs on without end (it finds a step or
\* stops with an error)
C13_WeatherSearchTerminates ==
    (weather_data # <<>> /\ ~IsCyclic(CpmPreds)) => outcome # "Hang"

---------------------------------------------------------------------------
(* Whole runs, as one call *)

\* schedule_activities(activities, weather_data, analysis_interval) from the
\* first line to the return
cpm_run(acts, wd, interval) ==
    LET st == forward_pass([acts |-> acts, err |-> "", depth |-> 0], 1, wd, interval)
    IN  IF st.err # "" THEN st
        ELSE [st EXCEPT !.acts = slack_pass(backward_pass(init_latest(st.acts),
                                                          Len(ActList), 1))]

\* schedule_around_target(target_name, target_start_time) from the first line
\* to the return
anchor_run(acts, t, target_time) ==
    LET cleared == reset_fields(acts)
    IN  IF t \notin DOMAIN acts
        THEN [acts |-> cleared, err |-> "ValueError", depth |-> 0]
        ELSE LET pinned == anchor_set(cleared, t, target_time)
                 back == IF chain_has_ghost(pinned, {t}, Cardinality(Ids))
                         THEN [acts |-> pinned, err |-> "KeyError", depth |-> 0]
                         ELSE backward_chain([acts |-> pinned, err |-> "", depth |-> 0],
                                             t, 1)
                 rest == residual_pass(forward_chain(back, t, 1), 1)
             IN  IF rest.err # "" THEN rest
                 ELSE [rest EXCEPT !.acts = float_pass(latest_pass(rest.acts, 1))]

---------------------------------------------------------------------------
(* Predecessor ids that are not in the graph *)

\* predecessor lists that name the id no activity carries
GhostLists(a) ==
    {<<Ghost>>} \cup UNION {{<<Ghost, x>>, <<x, Ghost>>} : x \in Ids \ {a}}

\* predecessor lists in which at most one activity names the missing id
GhostAssignments ==
    {P \in [Ids -> UNION {PredLists(a) \cup GhostLists(a) : a \in Ids}] :
        \E g \in Ids : /\ P[g] \in PredLists(g) \cup GhostLists(g)
                       /\ \A a \in Ids \ {g} : P[a] \in PredLists(a)}

\* schedule_activities on a list in which an activity may name a missing
\* predecessor
InitCpmGhost ==
    /\ pc = "cpm_start"
    /\ outcome = ""
    /\ maxdepth = 0
    /\ \E P \in GhostAssignments, D \in Durations :
         cpm = [a \in Ids |-> CpmActivity(P[a], D[a], None, None)]
    /\ weather_data = <<>>
    /\ analysis_interval = 1
    /\ sched = NoActs
    /\ windows = NoWindows
    /\ target_name = ""
    /\ target_start_time = None
    /\ probe = NoProbe
    /\ rerun = FALSE

SpecCpmGhost == InitCpmGhost /\ [][NextCpm]_vars

\* schedule_around_target on a freshly built graph in which an activity may
\* name a missing predecessor; durations are whole minutes
InitAnchorGhost ==
    /\ pc = "anchor_start"
    /\ outcome = ""
    /\ maxdepth = 0
    /\ \E P \in GhostAssignments, D \in [Ids -> {k * MinuteTicks : k \in 1..MaxDur}] :
         sched = [a \in Ids |-> SchedActivity(P[a], D[a], "", FALSE, "")]
    /\ windows = NoWindows
    /\ target_name \in Ids
    /\ target_start_time \in AnchorTimes
    /\ cpm = NoActs
    /\ weather_data = <<>>
    /\ analysis_interval = 1
    /\ probe = NoProbe
    /\ rerun = FALSE

SpecAnchorGhost == InitAnchorGhost /\ [][NextAnchor]_vars

\* a predecessor list without the ids that are not in the graph
StripMissing(preds) == SelectSeq(preds, LAMBDA p : p \in Ids)

NamesMissingPredecessor ==
    \E a \in Ids : \/ Range(cpm[a].predecessors) \ Ids # {}
                   \/ Range(sched[a].predecessors) \ Ids # {}

\* the result of schedule_activities had no missing id been listed
CpmWithoutMissing ==
    cpm_run([a \in Ids |-> CpmActivity(StripMissing(cpm[a].predecessors), cpm[a].duration,
                                       cpm[a].max_tidal_current, cpm[a].min_tidal_level)],
            weather_data, analysis_interval)

\* the result of schedule_around_target had no missing id been listed
AnchorWithoutMissing ==
    anchor_run([a \in Ids |->
                   [sched[a] EXCEPT !.predecessors = StripMissing(sched[a].predecessors)]],
               target_name, target_start_time)

\* C14: a run on an acyclic graph in which a predecessor id is missing still
\* completes, and every activity gets the times it would get if the missing id
\* were not listed
C14_MissingPredecessorIsAbsent ==
    (RunEnded /\ NamesMissingPredecessor /\ ~IsCyclic(CpmPreds) /\ ~IsCyclic(SchedPreds)) =>
        /\ outcome = "ok"
        /\ pc = "cpm_done" =>
               \A a \in Ids :
                   cpm[a] = [CpmWithoutMissing.acts[a]
                                EXCEPT !.predecessors = cpm[a].predecessors]
        /\ pc = "DONE" =>
               \A a \in Ids :
                   sched[a] = [AnchorWithoutMissing.acts[a]
                                  EXCEPT !.predecessors = sched[a].predecessors]

---------------------------------------------------------------------------
(* A second schedule_around_target call on the same Scheduler *)

\* the caller runs schedule_around_target again on the Scheduler it has
\* already run once (after the return or after catching the exception), with
\* any target name and anchor time
AnchorRerun ==
    /\ pc \in {"DONE", "raised"}
    /\ target_start_time # None
    /\ ~rerun
    /\ rerun' = TRUE
    /\ pc' = "anchor_start"
    /\ outcome' = ""
    /\ maxdepth' = 0
    /\ target_name' \in Ids \cup {Ghost}
    /\ target_start_time' \in AnchorTimes
    /\ UNCHANGED <<sched, cpm, weather_data, analysis_interval, windows, probe>>

\* freshly built acyclic graphs with durations of whole minutes
InitAnchorRerun == InitAnchorMinutes /\ ~IsCyclic(SchedPreds)

NextAnchorRerun == NextAnchor \/ AnchorRerun

SpecAnchorRerun == InitAnchorRerun /\ [][NextAnchorRerun]_vars

---------------------------------------------------------------------------
(* Properties: errors of schedule_around_target *)

\* schedule_around_target was called with a name no activity has, and the
\* call is past its reset
TargetNotFound ==
    /\ target_name \notin Ids
    /\ target_start_time # None
    /\ pc \notin {"anchor_start", "RESET"}

\* no computed field of any activity is set
NothingScheduled ==
    \A a \in Ids :
        /\ sched[a].start = None
        /\ sched[a].end = None
        /\ sched[a].earliest_start = None
        /\ sched[a].latest_end = None
        /\ sched[a].float = None

\* C15: when no activity has the target name, schedule_around_target raises
\* the configuration error and no activity is left with start, end,
\* earliest_start, latest_end or float set
C15_TargetNotFoundLeavesNothing ==
    TargetNotFound =>
        /\ pc = "raised"
        /\ outcome \in ConfigurationErrors
        /\ NothingScheduled

\* the failing call is the second one on a Scheduler whose first run had
\* scheduled the graph: a derived duration computed by that run is still there
C15_Witness ==
    /\ TargetNotFound
    /\ rerun
    /\ pc = "raised"
    /\ \E x \in DerivedActs : sched[x].duration > 0

\* the forward computation has raised the derived-duration error: the target
\* exists, so the ValueError is the one of compute_start_end_forward
DerivedDurationError ==
    /\ pc = "raised"
    /\ outcome = "ValueError"
    /\ target_name \in Ids

\* C16: when the forward computation raises the derived-duration error, the
\* failing activity is not left with start and end written: no activity with
\* a derived duration holds a start and an end that give a duration of zero
\* or less
C16_DerivedErrorLeavesNothing ==
    DerivedDurationError =>
        \A x \in DerivedActs :
            (sched[x].start # None /\ sched[x].end # None) => sched[x].end > sched[x].start

---------------------------------------------------------------------------
(* Properties: float of the anchor-pinned mode *)

\* C17: when schedule_around_target is DONE every activity has start and end
\* set and a float that is set and not below zero; for an activity whose
\* duration is a number the float is latest_end - earliest_start - duration
C17_FloatAtDone ==
    pc = "DONE" =>
        \A a \in Ids :
            /\ sched[a].start # None
            /\ sched[a].end # None
            /\ sched[a].float # None
            /\ sched[a].float >= 0
            /\ a \notin DerivedActs =>
                   /\ sched[a].latest_end # None
                   /\ sched[a].earliest_start # None
                   /\ sched[a].float = (sched[a].latest_end - sched[a].earliest_start)
                                       - sched[a].duration

---------------------------------------------------------------------------
(* Properties: the backward pass of schedule_activities *)

\* the activities that list a as a predecessor
CpmSuccessors(a) == {s \in Ids : a \in Range(cpm[s].predecessors)}

\* C18: after the backward pass every activity's latest_end is the smaller of
\* the project completion and the latest_start (latest_end - duration) of each
\* of its successors, and its latest_start is its latest_end less its
\* duration, whatever the order of the activity list
C18_BackwardPassLatestTimes ==
    pc \in {"cpm_backward_done", "cpm_done"} =>
        \A a \in Ids :
            /\ cpm[a].latest_end =
                   SetMin({project_end(cpm)} \cup
                          {cpm[s].latest_end - cpm[s].duration : s \in CpmSuccessors(a)})
            /\ cpm[a].latest_start = cpm[a].latest_end - cpm[a].duration

---------------------------------------------------------------------------
(* Properties: each start and end is written once per run *)

\* a step of schedule_activities keeps every start and end that is set
CpmKeepsWritten ==
    \A a \in Ids :
        /\ cpm[a].start # None => cpm'[a].start = cpm[a].start
        /\ cpm[a].end # None => cpm'[a].end = cpm[a].end

\* a step of schedule_around_target after its reset keeps every start and end
\* that is set
SchedKeepsWritten ==
    \A a \in Ids :
        /\ sched[a].start # None => sched'[a].start = sched[a].start
        /\ sched[a].end # None => sched'[a].end = sched[a].end

\* C19: within one run on an acyclic graph a start or end that has been
\* written is not written again with another value: no step of
\* schedule_activities and no phase of schedule_around_target after the reset
\* changes a start or end that is set
C19_WriteOnce ==
    [][/\ (pc \in {"cpm_start", "cpm_forward_done", "cpm_backward_done"}
           /\ ~IsCyclic(CpmPreds)) => CpmKeepsWritten
       /\ (pc \in {"RESET", "ANCHOR_SET", "BACKWARD_CHAIN", "FORWARD_CHAIN",
                   "RESIDUAL", "LATEST"}
           /\ ~IsCyclic(SchedPreds)) => SchedKeepsWritten]_vars

---------------------------------------------------------------------------
(* Properties: running schedule_around_target again *)

\* the graph as it is when freshly built: no computed field set, and the
\* placeholder 0 as the duration of an activity with a derived duration
FreshGraph ==
    [a \in Ids |->
        SchedActivity(sched[a].predecessors,
                      IF sched[a].duration_reference # "" THEN 0 ELSE sched[a].duration,
                      sched[a].constraints.tide_window_required,
                      sched[a].constraints.daylight_required,
                      sched[a].duration_reference)]

\* one run on the freshly built graph with the target and anchor time of the
\* current call
FreshRun == anchor_run(FreshGraph, target_name, target_start_time)

\* C20: a second schedule_around_target call on the same Scheduler gives every
\* activity exactly the start, end, duration and float that one call with the
\* same target and anchor time gives on a freshly built graph
C20_RerunEqualsFreshRun ==
    (rerun /\ pc = "DONE") =>
        /\ FreshRun.err = ""
        /\ \A a \in Ids :
               /\ sched[a].start = FreshRun.acts[a].start
               /\ sched[a].end = FreshRun.acts[a].end
               /\ sched[a].duration = FreshRun.acts[a].duration
               /\ sched[a].float = FreshRun.acts[a].float

---------------------------------------------------------------------------
(* The programs together: a behaviour is one run of schedule_activities, one
   or two runs of schedule_around_target on one Scheduler, or one call of an
   alignment search *)

Init == InitCpm \/ InitCpmGhost \/ InitAnchor \/ InitAnchorGhost \/ InitAlign

Next == NextCpm \/ NextAnchorRerun \/ NextAlign

Spec == Init /\ [][Next]_vars

---------------------------------------------------------------------------
(* Properties: find_latest_aligned_start and the backward chain *)

LatestStartReturned == pc = "probe_done" /\ probe.op = "find_latest_aligned_start"

\* the start find_latest_aligned_start returns leaves room for the duration
\* before latest_end
LatestStartWithinBound ==
    LatestStartReturned => probe.result + ProbeDuration <= probe.bound

\* the activities the backward chain has scheduled
BackwardScheduled == {a \in Ids : sched[a].latest_end # None}

\* every activity the backward chain has scheduled ends no later than the
\* bound its call was given (the start, at the time of the call, of the
\* activity it was reached from)
BackwardChainWithinGivenBound ==
    pc = "BACKWARD_CHAIN" =>
        \A a \in BackwardScheduled : sched[a].end <= sched[a].latest_end

\* C21: find_latest_aligned_start returns a start with start + duration no
\* later than latest_end, whatever the constraints and windows, and after the
\* backward chain every activity it has scheduled ends no later than the start
\* of each scheduled activity it precedes
C21_LatestStartBeforeSuccessor ==
    /\ LatestStartWithinBound
    /\ pc = "BACKWARD_CHAIN" =>
           \A a \in BackwardScheduled :
               \A s \in Range(successors(sched, a)) :
                   sched[s].start # None => sched[a].end <= sched[s].start

===========================================================================
